---- MODULE Spec2Model ----
(***************************************************************************)
(* DuplicatesSketch (src/src/lib.rs) and combine_sketches                  *)
(* (src/src/main.rs).                                                      *)
(*                                                                         *)
(* Machine integers are modelled at their full width as the set of their   *)
(* set bit positions: a u32 word is a subset of 0..31, a u64 / usize value *)
(* a subset of 0..63.  AND is intersection, OR is union, shifts move the   *)
(* positions and wrapping addition adds with carries and drops the carry   *)
(* out of the top bit.                                                     *)
(***************************************************************************)
EXTENDS Integers, Sequences, FiniteSets, TLC

\* ------------------------------------------------------------------------
\* Program constants
\* ------------------------------------------------------------------------
WORD_BITS == 32
WORD_LEN_BITS == 5
WORD_BYTES == 4
U64_BITS == 64
WORD_MASK == {i \in 0..(WORD_BITS - 1) : i % 2 = 0}

\* ------------------------------------------------------------------------
\* Bounds of the model
\* ------------------------------------------------------------------------
MaxInserts == 3
MaxMerges == 2

\* ------------------------------------------------------------------------
\* Fixed-width integer arithmetic on bit sets
\* ------------------------------------------------------------------------
Pow2(n) == 2 ^ n

\* The bits of a small natural number.
Bits(n) == {i \in 0..20 : (n \div Pow2(i)) % 2 = 1}

\* The natural number with the given (low) bits.
RECURSIVE ToNat(_)
ToNat(s) ==
    IF s = {} THEN 0
    ELSE LET i == CHOOSE j \in s : TRUE IN Pow2(i) + ToNat(s \ {i})

AllOnes(width) == 0..(width - 1)

Shl(x, k, width) == {i + k : i \in x} \cap (0..(width - 1))

Shr(x, k) == {i - k : i \in {j \in x : j >= k}}

\* The carry into bit i of an addition: some lower bit j generates a carry
\* (both operands have it: j \in gen) and every bit between j and i
\* propagates it (an operand has it: k \in prop).
CarryInto(gen, prop, i) ==
    \E j \in gen :
        /\ j < i
        /\ \A k \in (j + 1)..(i - 1) : k \in prop

\* x.wrapping_add(y) at the given width: the carry out of the top bit is
\* dropped.
WrappingAdd(x, y, width) ==
    LET gen == x \cap y
        prop == x \cup y
    IN  {i \in 0..(width - 1) : ((i \in x) # (i \in y)) # CarryInto(gen, prop, i)}

\* x.wrapping_mul(y) at the given width (shift and add over the bits of x).
RECURSIVE WrappingMul(_, _, _)
WrappingMul(x, y, width) ==
    IF x = {} THEN {}
    ELSE LET i == CHOOSE j \in x : TRUE
         IN  WrappingAdd(Shl(y, i, width), WrappingMul(x \ {i}, y, width), width)

\* ------------------------------------------------------------------------
\* DuplicatesSketch::new
\* ------------------------------------------------------------------------
IsPowerOfTwo(n) == \E k \in 0..20 : n = Pow2(k)

NextPowerOfTwo(n) == CHOOSE p \in {Pow2(k) : k \in 0..20} :
                        /\ p >= n
                        /\ \A q \in {Pow2(k) : k \in 0..20} : q >= n => p <= q

\* The word count new() gives the sketch.
NewLen(size) ==
    LET words == size \div WORD_BYTES
    IN  IF IsPowerOfTwo(words) THEN NextPowerOfTwo(words) ELSE words

New(probes, size) ==
    [probes |-> probes, words |-> [i \in 1..NewLen(size) |-> {}]]

IsCompatible(self, other) ==
    /\ self.probes = other.probes
    /\ Len(self.words) = Len(other.words)

\* ------------------------------------------------------------------------
\* DuplicatesSketch::probe_iter
\* ------------------------------------------------------------------------
\* len - 1 on usize.  With len = 0 a build with overflow checks panics and
\* a build without them wraps to usize::MAX.
LenMinusOne(len) == IF len > 0 THEN Bits(len - 1) ELSE AllOnes(U64_BITS)

WordIx(hash, len) == Shr(hash, WORD_LEN_BITS - 1) \cap LenMinusOne(len)

BitIx(hash) == ToNat(hash \cap Bits(WORD_BITS \div 2 - 1)) * 2

\* The closure of probe_iter, called for i, i + 1, .., probes - 1 with the
\* captured `hash`: it adds i * hash_b to hash and yields the position.
RECURSIVE ProbesFrom(_, _, _, _, _)
ProbesFrom(i, probes, hash, hash_b, len) ==
    IF i >= probes THEN <<>>
    ELSE LET next == WrappingAdd(hash, WrappingMul(Bits(i), hash_b, U64_BITS), U64_BITS)
         IN  <<[word_ix |-> WordIx(next, len), bit_ix |-> BitIx(next)]>>
                 \o ProbesFrom(i + 1, probes, next, hash_b, len)

\* The probe positions of an element whose hash is h = (hash_a, hash_b):
\* word_ix is a usize (bit set), bit_ix a small number.
ProbeIter(probes, len, h) == ProbesFrom(0, probes, h.a, h.b, len)

\* Is the usize ix a valid index of a vector of len elements?
InBounds(ix, len) == ix \subseteq 0..20 /\ ToNat(ix) < len

\* ------------------------------------------------------------------------
\* DuplicatesSketch::insert, has_duplicate, merge
\* ------------------------------------------------------------------------
InsertWordNoCarry(word, bit_ix) == word \cup {bit_ix}

InsertWordClamp(word, bit_ix) ==
    IF bit_ix \in word THEN (word \ {bit_ix}) \cup {bit_ix + 1} ELSE word \cup {bit_ix}

\* *word |= (*word & 1 << bit_ix).wrapping_add(1 << bit_ix)
InsertWord(word, bit_ix) ==
    word \cup WrappingAdd(word \cap {bit_ix}, {bit_ix}, WORD_BITS)

RECURSIVE InsertProbes(_, _, _)
InsertProbes(words, ps, i) ==
    IF i > Len(ps) THEN words
    ELSE LET ix == ToNat(ps[i].word_ix) + 1
         IN  InsertProbes([words EXCEPT ![ix] = InsertWord(words[ix], ps[i].bit_ix)],
                          ps, i + 1)

\* Does insert panic?  With overflow checks, on computing len - 1 for an
\* empty word vector; in every build, on indexing words out of bounds.
InsertPanics(self, h, overflowChecks) ==
    \/ overflowChecks /\ Len(self.words) = 0
    \/ \E i \in 1..self.probes :
        ~InBounds(ProbeIter(self.probes, Len(self.words), h)[i].word_ix, Len(self.words))

Insert(self, h) ==
    [self EXCEPT !.words =
        InsertProbes(self.words, ProbeIter(self.probes, Len(self.words), h), 1)]

\* words[word_ix] >> bit_ix & 0b11
Counter(word, bit_ix) == ToNat(Shr(word, bit_ix) \cap Bits(3))

HasDuplicateNonZero(self, h) ==
    LET ps == ProbeIter(self.probes, Len(self.words), h)
    IN  \A i \in 1..self.probes :
            Counter(self.words[ToNat(ps[i].word_ix) + 1], ps[i].bit_ix) > 0

HasDuplicate(self, h) ==
    LET ps == ProbeIter(self.probes, Len(self.words), h)
    IN  \A i \in 1..self.probes :
            Counter(self.words[ToNat(ps[i].word_ix) + 1], ps[i].bit_ix) > 1

MergeWordOr(a, b) == a \cup b

MergeWordNoMask(a, b) == a \cup (b \cup WrappingAdd(a, b, WORD_BITS))

MergeWordNoOther(a, b) ==
    a \cup WrappingAdd(a \cap WORD_MASK, b \cap WORD_MASK, WORD_BITS)

\* *a |= *b | (*a & WORD_MASK).wrapping_add(*b & WORD_MASK)
MergeWord(a, b) ==
    a \cup (b \cup WrappingAdd(a \cap WORD_MASK, b \cap WORD_MASK, WORD_BITS))

Merge(self, other) ==
    [self EXCEPT !.words =
        [i \in 1..Len(self.words) |-> MergeWord(self.words[i], other.words[i])]]

\* ------------------------------------------------------------------------
\* DuplicatesSketch::serialize, deserialize
\* ------------------------------------------------------------------------
BYTE_BITS == 8
U32_BYTES == 4
U64_BYTES == 8

BeBytes(x, n) ==
    [i \in 1..n |-> ToNat(Shr(x, BYTE_BITS * (n - i)) \cap (0..(BYTE_BITS - 1)))]

\* write_u32::<LittleEndian> / write_u64::<LittleEndian>: the n bytes of x,
\* least significant first.
LeBytes(x, n) ==
    [i \in 1..n |-> ToNat(Shr(x, BYTE_BITS * (i - 1)) \cap (0..(BYTE_BITS - 1)))]

\* read_u32::<LittleEndian> / read_u64::<LittleEndian>: the value of bytes
\* from..to of the stream, least significant first.
FromLe(stream, from, to) ==
    UNION {Shl(Bits(stream[i]), BYTE_BITS * (i - from), U64_BITS) : i \in from..to}

RECURSIVE WordBytes(_, _)
WordBytes(words, i) ==
    IF i > Len(words) THEN <<>>
    ELSE LeBytes(words[i], U32_BYTES) \o WordBytes(words, i + 1)

\* The bytes serialize writes.
Serialize(self) ==
    LeBytes(Bits(self.probes), U32_BYTES)
        \o LeBytes(Bits(Len(self.words)), U64_BYTES)
        \o WordBytes(self.words, 1)

HEADER_BYTES == U32_BYTES + U64_BYTES

\* deserialize on a stream whose only failure is its end: read_u32 fails
\* with UnexpectedEof whenever fewer than 4 bytes are left, and that is
\* returned as Ok(None); a short word count or word body is an error.
Deserialize(stream) ==
    IF Len(stream) < U32_BYTES
    THEN [kind |-> "None", rest |-> <<>>]
    ELSE IF Len(stream) < HEADER_BYTES
    THEN [kind |-> "Err", rest |-> <<>>]
    ELSE LET n == ToNat(FromLe(stream, U32_BYTES + 1, HEADER_BYTES))
             end == HEADER_BYTES + U32_BYTES * n
         IN  IF Len(stream) < end
             THEN [kind |-> "Err", rest |-> <<>>]
             ELSE [kind |-> "Some",
                   sketch |->
                       [probes |-> ToNat(FromLe(stream, 1, U32_BYTES)),
                        words |-> [w \in 1..n |->
                            FromLe(stream, HEADER_BYTES + U32_BYTES * (w - 1) + 1,
                                   HEADER_BYTES + U32_BYTES * w)]],
                   rest |-> SubSeq(stream, end + 1, Len(stream))]

\* ------------------------------------------------------------------------
\* combine_sketches
\* ------------------------------------------------------------------------
None == [kind |-> "None"]

Some(sketch) == [kind |-> "Some", sketch |-> sketch]

\* The accumulator (`sketch`) after a compatible sketch was read.
CombineOne(acc, to_merge) ==
    IF acc.kind = "None" THEN Some(to_merge) ELSE Some(Merge(acc.sketch, to_merge))

\* The accumulator after reading the sketches of a sequence, in order.
RECURSIVE CombineFrom(_, _, _)
CombineFrom(acc, sketches, i) ==
    IF i > Len(sketches) THEN acc
    ELSE CombineFrom(CombineOne(acc, sketches[i]), sketches, i + 1)

CombineAll(sketches) == CombineFrom(None, sketches, 1)

\* ------------------------------------------------------------------------
\* State
\* ------------------------------------------------------------------------
VARIABLES
    reqSize,    \* the size in bytes new() was called with
    T,          \* the sketch every element is inserted into
    M,          \* the sketch the sub-sketches are merged into
    sub,        \* the current sub-sketch
    cntM,       \* element -> number of insert calls merged into M
    cntSub,     \* element -> number of insert calls on sub
    merges,     \* number of merge calls so far
    crossed,    \* some element has occurrences in two different sub-sketches
    panicked,   \* an insert or a merge panicked
    pool,       \* sketches at hand: the operands of merge, the sketches to serialize
    last,       \* the merge carried out on pool: its operands, and what they were
    stream,     \* the bytes written and not yet read
    pending,    \* the sketches whose bytes were written and not yet read
    cut,        \* the stream was cut short
    reads,      \* number of deserialize calls
    result,     \* what the last deserialize call returned
    acc,        \* combine_sketches: the sketch combined so far
    outcome     \* combine_sketches: running, or how it returned

buildVars == <<reqSize, T, M, sub, cntM, cntSub, merges, crossed>>

poolVars == <<pool, last>>

streamVars == <<stream, pending, cut, reads, result, acc, outcome>>

vars == <<buildVars, panicked, poolVars, streamVars>>

\* The elements, each given by its 128-bit hash (hash_a, hash_b): probes
\* that all coincide (hash_b = 0), probes that walk through one word and
\* share a position with another element's, probes at bit 30 that change
\* word, and hashes that wrap.
Elements ==
    { [a |-> Bits(0),           b |-> Bits(0)],
      [a |-> Bits(0),           b |-> Bits(1)],
      [a |-> Bits(1),           b |-> Bits(1)],
      [a |-> Bits(31),          b |-> Bits(16)],
      [a |-> AllOnes(U64_BITS), b |-> AllOnes(U64_BITS)] }

ProbeCounts == {1, 2, 3}

\* Requested sizes in bytes: 0 (no word), 4, 8, 13 (three words).
Sizes == {0, 4, 8, 13}

Zero == [e \in Elements |-> 0]

RECURSIVE SumOver(_, _)
SumOver(f, s) ==
    IF s = {} THEN 0
    ELSE LET e == CHOOSE d \in s : TRUE IN f[e] + SumOver(f, s \ {e})

Total(cnt) == SumOver(cnt, Elements)

\* element -> number of insert calls on T
cntT == [e \in Elements |-> cntM[e] + cntSub[e]]

IdlePool ==
    /\ pool = <<>>
    /\ last = <<>>

IdleStream ==
    /\ stream = <<>>
    /\ pending = <<>>
    /\ cut = FALSE
    /\ reads = 0
    /\ result = [kind |-> "NotRead"]
    /\ acc = None
    /\ outcome = "running"

Init ==
    /\ reqSize \in Sizes
    /\ \E probes \in ProbeCounts :
        /\ T = New(probes, reqSize)
        /\ M = New(probes, reqSize)
        /\ sub = New(probes, reqSize)
    /\ cntM = Zero
    /\ cntSub = Zero
    /\ merges = 0
    /\ crossed = FALSE
    /\ panicked = FALSE
    /\ IdlePool
    /\ IdleStream

\* tests::insert / tests::merge: the element goes into the sketch built
\* from the whole sequence and into the current sub-sketch.
InsertAct(e) ==
    /\ ~panicked
    /\ Total(cntT) < MaxInserts
    /\ \E overflowChecks \in (IF Len(T.words) = 0 THEN BOOLEAN ELSE {TRUE}) :
        IF InsertPanics(T, e, overflowChecks)
        THEN /\ panicked' = TRUE
             /\ UNCHANGED <<T, sub, cntSub>>
        ELSE /\ T' = Insert(T, e)
             /\ sub' = Insert(sub, e)
             /\ cntSub' = [cntSub EXCEPT ![e] = @ + 1]
             /\ UNCHANGED panicked
    /\ UNCHANGED <<reqSize, M, cntM, merges, crossed, poolVars, streamVars>>

\* tests::merge: sketch.merge(&sub_sketch) ends the loop body; the next
\* iteration starts with a new sub-sketch.
MergeSubAct ==
    /\ ~panicked
    /\ merges < MaxMerges
    /\ IsCompatible(M, sub)
    /\ M' = Merge(M, sub)
    /\ sub' = New(sub.probes, reqSize)
    /\ cntM' = [e \in Elements |-> cntM[e] + cntSub[e]]
    /\ cntSub' = Zero
    /\ merges' = merges + 1
    /\ crossed' = (crossed \/ \E e \in Elements : cntM[e] > 0 /\ cntSub[e] > 0)
    /\ UNCHANGED <<reqSize, T, panicked, poolVars, streamVars>>

Next ==
    \/ \E e \in Elements : InsertAct(e)
    \/ MergeSubAct

Spec == Init /\ [][Next]_vars

\* ------------------------------------------------------------------------
\* merge on sketches with any counter values
\* ------------------------------------------------------------------------
IdleBuild ==
    /\ reqSize = 0
    /\ T = New(1, 0)
    /\ M = New(1, 0)
    /\ sub = New(1, 0)
    /\ cntM = Zero
    /\ cntSub = Zero
    /\ merges = 0
    /\ crossed = FALSE

\* Words whose two top counters (bits 28..31) hold any values: such words
\* come out of deserialize, which checks nothing.
TopWords == {Shl(Bits(n), WORD_BITS - 4, WORD_BITS) : n \in 0..15}

\* A second word with a counter at the bottom.
LowWords == {Bits(0), Bits(1)}

FirstSketches ==
    {[probes |-> 2, words |-> <<w1, Bits(1)>>] : w1 \in TopWords}

SecondSketches ==
    {[probes |-> 2, words |-> <<w1, w2>>] : w1 \in TopWords, w2 \in LowWords}

\* The last one is not compatible with the others.
ThirdSketches ==
    {[probes |-> 2, words |-> <<Shl(Bits(n), WORD_BITS - 2, WORD_BITS), Bits(2)>>] :
        n \in 0..3}
    \cup {[probes |-> 3, words |-> <<Bits(3), Bits(0)>>]}

InitMerge ==
    /\ IdleBuild
    /\ IdleStream
    /\ panicked = FALSE
    /\ \E a \in FirstSketches : \E b \in SecondSketches : \E c \in ThirdSketches :
        pool = <<a, b, c>>
    /\ last = <<>>

\* pool[self].merge(&pool[other]); merge asserts that the two are compatible.
MergeAct(self, other) ==
    /\ last = <<>>
    /\ ~panicked
    /\ self # other
    /\ IF IsCompatible(pool[self], pool[other])
       THEN /\ pool' = [pool EXCEPT ![self] = Merge(pool[self], pool[other])]
            /\ last' = [self |-> self, other |-> other,
                         a |-> pool[self], b |-> pool[other]]
            /\ UNCHANGED panicked
       ELSE /\ panicked' = TRUE
            /\ UNCHANGED <<pool, last>>
    /\ UNCHANGED <<buildVars, streamVars>>

NextMerge == \E self, other \in 1..3 : MergeAct(self, other)

SpecMerge == InitMerge /\ [][NextMerge]_vars

\* ------------------------------------------------------------------------
\* serialize, a stream that may end early, and combine_sketches reading it
\* ------------------------------------------------------------------------
MaxRecords == 2

StreamProbes == {1, 2}

StreamSizes == {0, 4, 8}

\* Sketches made by new, insert and merge from p probes and size bytes.
BuiltFrom(p, size) ==
    IF NewLen(size) = 0 THEN {New(p, size)}
    ELSE {New(p, size)}
            \cup {Insert(New(p, size), e) : e \in Elements}
            \cup {Merge(Insert(New(p, size), e), Insert(New(p, size), f)) :
                    e \in Elements, f \in Elements}

InitStream ==
    /\ IdleBuild
    /\ panicked = FALSE
    /\ \E p \in StreamProbes : \E size \in StreamSizes :
        \E a \in BuiltFrom(p, size) : \E b \in {New(p, size), New(p + 1, size)} :
            pool = <<a, b>>
    /\ last = <<>>
    /\ IdleStream

\* pool[i].serialize(stdout), before the reader starts.
WriteAct(i) ==
    /\ reads = 0
    /\ ~cut
    /\ Len(pending) < MaxRecords
    /\ stream' = stream \o Serialize(pool[i])
    /\ pending' = Append(pending, pool[i])
    /\ UNCHANGED <<buildVars, panicked, poolVars, cut, reads, result, acc, outcome>>

\* The stream ends n bytes into its last record.
TruncateAct(n) ==
    /\ reads = 0
    /\ ~cut
    /\ pending # <<>>
    /\ n < Len(Serialize(pending[Len(pending)]))
    /\ stream' = SubSeq(stream, 1,
                        Len(stream) - Len(Serialize(pending[Len(pending)])) + n)
    /\ cut' = TRUE
    /\ UNCHANGED <<buildVars, panicked, poolVars, pending, reads, result, acc, outcome>>

\* combine_sketches: one evaluation of the loop condition, with the loop
\* body if a sketch was read and the return if not.
CombineStep ==
    /\ outcome = "running"
    /\ LET r == Deserialize(stream)
       IN  /\ result' = [kind |-> r.kind,
                         sketch |-> IF r.kind = "Some" THEN r.sketch ELSE <<>>]
           /\ stream' = r.rest
           /\ reads' = reads + 1
           /\ pending' = IF pending = <<>> THEN <<>> ELSE Tail(pending)
           /\ IF r.kind = "Err"
              THEN /\ outcome' = "io error"
                   /\ UNCHANGED acc
              ELSE IF r.kind = "None"
              THEN /\ outcome' = IF acc.kind = "None" THEN "No sketches in input" ELSE "ok"
                   /\ UNCHANGED acc
              ELSE IF acc.kind = "Some" /\ ~IsCompatible(acc.sketch, r.sketch)
              THEN /\ outcome' = "Incompatible sketches"
                   /\ UNCHANGED acc
              ELSE /\ acc' = CombineOne(acc, r.sketch)
                   /\ UNCHANGED outcome
    /\ UNCHANGED <<buildVars, panicked, poolVars, cut>>

NextStream ==
    \/ \E i \in 1..2 : WriteAct(i)
    \/ \E n \in 0..(HEADER_BYTES + U32_BYTES * 2) : TruncateAct(n)
    \/ CombineStep

SpecStream == InitStream /\ [][NextStream]_vars

\* ------------------------------------------------------------------------
\* Properties of insert, has_duplicate and merge
\* ------------------------------------------------------------------------
PosOf(sk, e) == ProbeIter(sk.probes, Len(sk.words), e)

RECURSIVE HitsOver(_, _, _, _, _)
HitsOver(ps, cnt, w, bit_ix, s) ==
    IF s = {} THEN 0
    ELSE LET e == CHOOSE d \in s : TRUE
         IN  cnt[e] * Cardinality({i \in DOMAIN ps[e] :
                        /\ ps[e][i].bit_ix = bit_ix
                        /\ ToNat(ps[e][i].word_ix) + 1 = w})
                 + HitsOver(ps, cnt, w, bit_ix, s \ {e})

\* Probe hits on counter (w, bit_ix) over all insert calls counted in cnt,
\* ps giving the probe positions of the inserted elements.
Hits(ps, cnt, w, bit_ix) == HitsOver(ps, cnt, w, bit_ix, DOMAIN ps)

\* The probe positions of the elements inserted according to cnt.
InsertedPos(sk, cnt) == [e \in {d \in Elements : cnt[d] > 0} |-> PosOf(sk, e)]

CounterOffsets == {2 * c : c \in 0..(WORD_BITS \div 2 - 1)}

SharePos(sk, x, y) ==
    \E i, j \in 1..sk.probes : PosOf(sk, x)[i] = PosOf(sk, y)[j]

SelfCollides(sk, x) ==
    \E i, j \in 1..sk.probes : i # j /\ PosOf(sk, x)[i] = PosOf(sk, x)[j]

\* C1: every element inserted at least twice into T (a sketch with at least
\* one word, filled by inserts only) is reported by has_duplicate, in every
\* state after its second insert, whatever is inserted later.
C1_NoFalseNegatives ==
    \A e \in Elements : cntT[e] >= 2 => HasDuplicate(T, e)

C1_Witness ==
    /\ T.probes >= 2
    /\ \E e \in Elements : cntT[e] = 2 /\ HasDuplicate(T, e)
    /\ \E f \in Elements : cntT[f] = 1 /\ ~HasDuplicate(T, f)

\* C2: once every sub-sketch has been merged into M, M and T (built from
\* the whole sequence) answer has_duplicate alike for every inserted
\* element, and M reports every element that occurs at least twice, also
\* when its occurrences are in different sub-sketches.
C2_MergeEquivalence ==
    (cntSub = Zero /\ ~panicked) =>
        \A e \in Elements :
            cntT[e] > 0 =>
                /\ HasDuplicate(M, e) = HasDuplicate(T, e)
                /\ cntT[e] >= 2 => HasDuplicate(M, e)

C2_Witness ==
    /\ cntSub = Zero
    /\ crossed
    /\ merges >= 2
    /\ \E e \in Elements : cntM[e] = 2 /\ HasDuplicate(M, e)
    /\ \E f \in Elements : cntM[f] = 1 /\ ~HasDuplicate(M, f)

\* C6 (as claimed): if has_duplicate(x) is true on T although x was inserted
\* at most once, some other inserted element shares a probe position with
\* x; so after inserting only x, once, has_duplicate(x) is false.
C6_FalsePositiveNeedsOther ==
    Len(T.words) > 0 =>
        \A x \in Elements :
            (cntT[x] <= 1 /\ HasDuplicate(T, x)) =>
                \E y \in Elements \ {x} : cntT[y] > 0 /\ SharePos(T, x, y)

\* C6 (amended): if has_duplicate(x) is true on T although x was inserted
\* at most once, then some other inserted element shares a probe position
\* with x, or x was inserted once and two of its own probes coincide.
C6_FalsePositiveNeedsCollision ==
    Len(T.words) > 0 =>
        \A x \in Elements :
            (cntT[x] <= 1 /\ HasDuplicate(T, x)) =>
                \/ \E y \in Elements \ {x} : cntT[y] > 0 /\ SharePos(T, x, y)
                \/ cntT[x] = 1 /\ SelfCollides(T, x)

C6_Witness ==
    /\ Len(T.words) > 0
    /\ \E x \in Elements :
        /\ cntT[x] = 0
        /\ HasDuplicate(T, x)
    /\ \E x \in Elements :
        /\ cntT[x] = 1
        /\ ~SelfCollides(T, x)
        /\ ~HasDuplicate(T, x)

\* The value a counter holds after n probe hits.
CounterAfter(n) == IF n = 0 THEN 0 ELSE IF n = 1 THEN 1 ELSE 3

CountersMatchHits(sk, cnt) ==
    LET ps == InsertedPos(sk, cnt)
    IN  \A w \in 1..Len(sk.words) : \A b \in CounterOffsets :
            Counter(sk.words[w], b) = CounterAfter(Hits(ps, cnt, w, b))

NoBitCleared(old, new) ==
    \A w \in 1..Len(old.words) : old.words[w] \subseteq new.words[w]

\* C10: in T, M and the sub-sketch every counter holds 0, 1 or 3 according
\* to whether its probe hits (over all inserts in the sketch and in the
\* sketches merged into it) number 0, 1 or at least 2, never 2; and no
\* insert or merge clears a bit of the sketch it changes.
C10_CounterInvariant ==
    /\ [](/\ CountersMatchHits(T, cntT)
          /\ CountersMatchHits(M, cntM)
          /\ CountersMatchHits(sub, cntSub))
    /\ [][/\ NoBitCleared(T, T')
          /\ NoBitCleared(M, M')
          /\ (cntSub' # Zero => NoBitCleared(sub, sub'))]_vars

C10_Witness ==
    /\ merges >= 1
    /\ \E w \in 1..Len(M.words) : \E b \in CounterOffsets :
        /\ Hits(InsertedPos(M, cntM), cntM, w, b) >= 3
        /\ Counter(M.words[w], b) = 3
    /\ \E w \in 1..Len(M.words) : \E b \in CounterOffsets :
        /\ Hits(InsertedPos(M, cntM), cntM, w, b) = 1
        /\ Counter(M.words[w], b) = 1
    /\ \E w \in 1..Len(sub.words) : \E b \in CounterOffsets :
        Counter(sub.words[w], b) = 3

\* C4 (as claimed): the word count of a sketch made by new(probes,
\* requested_bytes) is a power of two >= 1, the smallest one >=
\* requested_bytes div 4, with W * 4 >= requested_bytes from 4 bytes on, and
\* the words of the new sketch are zero.
C4_WordCountShape ==
    LET W == Len(T.words)
    IN  /\ IsPowerOfTwo(W)
        /\ W >= 1
        /\ reqSize = 0 => W = 1
        /\ W = NextPowerOfTwo(reqSize \div WORD_BYTES)
        /\ reqSize >= WORD_BYTES => W * WORD_BYTES >= reqSize
        /\ (Total(cntT) = 0) => \A w \in 1..W : T.words[w] = {}

\* C9 (as claimed): every probe position of every element has word_ix in
\* [0, W) and bit_ix in {0, 2, .., 30}, and no insert fails.
C9_ProbesInRange ==
    /\ ~panicked
    /\ \A e \in Elements : \A i \in 1..T.probes :
        /\ InBounds(PosOf(T, e)[i].word_ix, Len(T.words))
        /\ PosOf(T, e)[i].bit_ix \in CounterOffsets

\* ------------------------------------------------------------------------
\* Properties of merge on any counter values
\* ------------------------------------------------------------------------
Min(a, b) == IF a < b THEN a ELSE b

\* The table of C7 as claimed, on counter values 0..2.
ClaimedMergeTable(a, b) == IF a = 2 /\ b = 2 THEN 2 ELSE Min(a + b, 3)

\* The same table with (1,1) -> 3, extended to the value 3: the bitwise OR
\* of the two values, with the high bit set when both low bits are.
MergeTable(a, b) ==
    IF a = 0 THEN b
    ELSE IF b = 0 THEN a
    ELSE IF a = 2 /\ b = 2 THEN 2
    ELSE 3

Merged == last # <<>>

\* C7 (as claimed): after self.merge(other) every counter of self holds the
\* value of the table (0,0)->0, (0,1)->1, (1,0)->1, (1,1)->2, (0,2)->2,
\* (2,0)->2, (1,2)->3, (2,1)->3, (2,2)->2 on its old value and other's,
\* and other is unchanged.
C7_MergeTableAsClaimed ==
    Merged =>
        /\ \A w \in 1..Len(last.a.words) : \A b \in CounterOffsets :
            (Counter(last.a.words[w], b) <= 2 /\ Counter(last.b.words[w], b) <= 2) =>
                Counter(pool[last.self].words[w], b) =
                    ClaimedMergeTable(Counter(last.a.words[w], b),
                                      Counter(last.b.words[w], b))
        /\ pool[last.other] = last.b

\* C7 (amended): after self.merge(other) every counter of self holds the
\* value of that table with (1,1)->3 (and 3 when either value is 3 and the
\* other any value), whatever the neighbouring counters hold, the probes
\* and word count of self are unchanged, and other is unchanged.
C7_MergeTable ==
    Merged =>
        /\ \A w \in 1..Len(last.a.words) : \A b \in CounterOffsets :
            Counter(pool[last.self].words[w], b) =
                MergeTable(Counter(last.a.words[w], b), Counter(last.b.words[w], b))
        /\ pool[last.self].probes = last.a.probes
        /\ Len(pool[last.self].words) = Len(last.a.words)
        /\ pool[last.other] = last.b

C7_Witness ==
    /\ Merged
    /\ Counter(last.a.words[1], WORD_BITS - 2) = 1
    /\ Counter(last.b.words[1], WORD_BITS - 2) = 1
    /\ Counter(last.a.words[1], WORD_BITS - 4) = 3
    /\ Counter(last.b.words[1], WORD_BITS - 4) = 1
    /\ Counter(pool[last.self].words[1], WORD_BITS - 2) = 3
    /\ Counter(pool[last.self].words[1], WORD_BITS - 4) = 3

Permutations3 ==
    {<<1, 2, 3>>, <<1, 3, 2>>, <<2, 1, 3>>, <<2, 3, 1>>, <<3, 1, 2>>, <<3, 2, 1>>}

\* C8: for compatible sketches A, B, C merging B into A and A into B give
\* the same words and has_duplicate answers, merging C into (A merged with
\* B) gives the words of merging (B merged with C) into A, and combining
\* the three in any order gives the same sketch.
C8_MergeOrderIndependent ==
    /\ \A i, j \in 1..3 :
        IsCompatible(pool[i], pool[j]) =>
            Merge(pool[i], pool[j]).words = Merge(pool[j], pool[i]).words
    /\ \A e \in Elements :
        HasDuplicate(Merge(pool[1], pool[2]), e) = HasDuplicate(Merge(pool[2], pool[1]), e)
    /\ (\A i \in 1..3 : IsCompatible(pool[1], pool[i])) =>
        /\ \A p \in Permutations3 :
            /\ Merge(Merge(pool[p[1]], pool[p[2]]), pool[p[3]]).words
                = Merge(pool[p[1]], Merge(pool[p[2]], pool[p[3]])).words
            /\ CombineAll(<<pool[p[1]], pool[p[2]], pool[p[3]]>>).sketch.words
                = CombineAll(<<pool[1], pool[2], pool[3]>>).sketch.words

C8_Witness ==
    /\ Merged
    /\ \A i \in 1..3 : IsCompatible(pool[1], pool[i])
    /\ pool[last.self] = Merge(last.b, last.a)
    /\ pool[last.self] # last.a
    /\ pool[last.self].words # last.b.words
    /\ \E b \in CounterOffsets :
        Counter(last.a.words[1], b) = 2 /\ Counter(last.b.words[1], b) = 1

\* ------------------------------------------------------------------------
\* Properties of serialize and deserialize
\* ------------------------------------------------------------------------
RecordBytes(sketch) == HEADER_BYTES + U32_BYTES * Len(sketch.words)

Read == reads' # reads

\* The record at the head of the stream is whole.
HeadIntact == pending # <<>> /\ (cut => Len(pending) > 1)

\* The stream ends inside the record at its head, after at least one byte.
HeadTruncated == pending # <<>> /\ cut /\ Len(pending) = 1 /\ stream # <<>>

\* C3: serialize writes 12 + 4 * W bytes, and deserialize reading the bytes
\* of a sketch made by new, insert and merge returns a sketch with the same
\* probes and the same words.
C3_RoundTrip ==
    [][/\ (Len(pending') > Len(pending)) =>
            Len(stream') = Len(stream) + RecordBytes(pending'[Len(pending')])
       /\ (Read /\ HeadIntact) =>
            /\ result'.kind = "Some"
            /\ result'.sketch = Head(pending)
            /\ Len(stream') = Len(stream) - RecordBytes(Head(pending))]_vars

C3_Witness ==
    /\ reads = 2
    /\ ~cut
    /\ result.kind = "Some"
    /\ result.sketch = pool[1]
    /\ Len(result.sketch.words) = 2
    /\ \E w \in 1..2 : result.sketch.words[w] \cap (BYTE_BITS..(WORD_BITS - 1)) # {}
    /\ \E w \in 1..2 : result.sketch.words[w] \cap (0..(BYTE_BITS - 1)) # {}

\* C5 (as claimed): deserialize returns "no sketch" only with no byte left
\* where a record would begin, and an error whenever the stream ends inside
\* a record after at least one of its bytes.
C5_TruncationIsError ==
    [][Read =>
        /\ result'.kind = "None" => stream = <<>>
        /\ HeadTruncated => result'.kind = "Err"]_vars

====
